---- MODULE Spec2Model ----
(***************************************************************************)
(* Model of the Agent supervisor of magalix-agent (agent/agent.go):        *)
(* Agent.Start, Agent.Stop, Agent.stopSources, Agent.stopSinks, the three  *)
(* cancellation contexts, the errgroup the tasks run in, and the           *)
(* collaborators' Start tasks.                                             *)
(*                                                                         *)
(* Start is modelled statement by statement (pc holds the line it is       *)
(* about to execute); Stop is modelled statement by statement for each     *)
(* of its concurrent callers, because its check, its call and its          *)
(* assignment of a.cancelAll are separate unsynchronised accesses.         *)
(***************************************************************************)
EXTENDS Naturals, FiniteSets, Sequences, TLC

\* Number of goroutines that may call Agent.Stop.
NumStoppers == 2

Stoppers == 1..NumStoppers

\* The returns of Stop are counted up to this number.
MaxStops == 2

\* ------------------------------------------------------------------------
\* Collaborators and their tasks
\* ------------------------------------------------------------------------

\* The components whose Start Agent.Start may launch in the errgroup.
Tasks == {"Gateway", "EntitiesSource", "MetricsSource", "AutomationExecutor", "Auditor"}

\* The components launched after authorization.
SourceTasks == Tasks \ {"Gateway"}

\* The context each task's Start receives.
TaskCtx(t) == IF t = "Gateway" THEN "sinksCtx" ELSE "sourcesCtx"

\* The error a component's Start returns when it fails by itself.
TaskErr(t) ==
    CASE t = "Gateway" -> "errGateway"
      [] t = "EntitiesSource" -> "errEntitiesSource"
      [] t = "MetricsSource" -> "errMetricsSource"
      [] t = "AutomationExecutor" -> "errAutomationExecutor"
      [] OTHER -> "errAuditor"

\* The error a component's Start may return when its context is cancelled.
ErrCanceled == "context canceled"

\* The errors Gateway.WaitAuthorization may return.
AuthErrors == {"timeout", "rejected"}

\* ------------------------------------------------------------------------
\* Contexts
\* ------------------------------------------------------------------------

Contexts == {"allCtx", "sourcesCtx", "sinksCtx", "egCtx"}

\* Every context but the root is derived from allCtx.
Parent(c) == "allCtx"

\* A WithCancel whose child is live whatever the state of the parent.
WithCancel_AlwaysLive(c, name) == [c EXCEPT ![name] = "live"]

\* context.WithCancel(parent): the child is born cancelled when the parent
\* already is.
WithCancel(c, name) ==
    [c EXCEPT ![name] = IF c[Parent(name)] = "cancelled" THEN "cancelled" ELSE "live"]

\* A cancel function that cancels only its own context (not what the
\* context package does).
Cancel_OnlySelf(c, name) ==
    [n \in Contexts |-> IF n = name /\ c[n] = "live" THEN "cancelled" ELSE c[n]]

\* Calling the cancel function of context name: the context and every live
\* context derived from it are cancelled; a second call changes nothing.
Cancel(c, name) ==
    [n \in Contexts |->
        IF c[n] = "live" /\ (n = name \/ (name = "allCtx" /\ Parent(n) = name))
        THEN "cancelled" ELSE c[n]]

\* ------------------------------------------------------------------------
\* Handlers
\* ------------------------------------------------------------------------

AutomationHandlers ==
    {"AutomationExecutor.SetAutomationFeedbackHandler", "Gateway.SetAutomationHandler"}

MetricsHandlers == {"MetricsSource.SetMetricsHandler"}

EntitiesHandlers ==
    {"EntitiesSource.SetDeltasHandler", "EntitiesSource.SetEntitiesResyncHandler"}

AuditorHandlers == {"Auditor.SetAuditResultHandler"}

GatewayHandlers ==
    {"Gateway.SetAuditCommandHandler", "Gateway.SetConstraintsHandler",
     "Gateway.SetRestartHandler", "Gateway.SetChangeLogLevelHandler"}

\* ------------------------------------------------------------------------
\* Log levels
\* ------------------------------------------------------------------------

\* The level names ConfigureGlobalLogger's switch accepts, with the logger
\* level each selects; any other name selects none.
LoggerLevel(name) ==
    CASE name = "info" -> "InfoLevel"
      [] name = "debug" -> "DebugLevel"
      [] name = "warn" -> "WarnLevel"
      [] name = "error" -> "ErrorLevel"
      [] OTHER -> "unsupported"

\* The level main configures before it creates the agent: the default of
\* the --log-level option.
DefaultLogLevel == LoggerLevel("warn")

\* The level names a log-level command may carry.
LevelNames == {"info", "debug", "warn", "error", "verbose", "INFO", ""}

VARIABLES
    EnableMetrics,      \* Agent.EnableMetrics
    EnableAutomation,   \* Agent.EnableAutomation
    pc,                 \* the statement Agent.Start is about to execute
    cancelAll,          \* Agent.cancelAll: "nil" or "set"
    cancelSources,      \* Agent.cancelSources
    cancelSinks,        \* Agent.cancelSinks
    deferred,           \* the function value Start's defer statement captured
    ctx,                \* state of each context: "none", "live", "cancelled"
    handlers,           \* the Set...Handler calls made so far
    task,               \* each task: "none", "running", "done"
    taskRet,            \* what each task's Start returned ("none" until it does)
    firstFailed,        \* the first task whose Start returned an error, or "none"
    egErr,              \* the errgroup's err (set once)
    authCalled,         \* Gateway.WaitAuthorization has been called
    authResult,         \* what it returned: "pending", "nil" or an error
    ret,                \* what Start returned ("none" until it does)
    stopPc,             \* each Stop caller's position
    stopRets,           \* the values the calls of Stop have returned
    stopDone,           \* the calls of Stop that have returned, counted from the first
                        \* that invoked the cancel handle, up to MaxStops
    panicked,           \* the goroutine whose panic ended the process, or "none"
    launches,           \* how many times eg.Go has been called for each task
    lateLaunch,         \* the first launch made when the root context was already
                        \* cancelled: "none", "Gateway" or "source"
    subtreeOp,          \* the last call of stopSources or stopSinks and whether it
                        \* found its handle ("none" before the first)
    logLevel,           \* the level the global logger is configured with
    logErr,             \* what the last log-level change returned ("none" before it)
    logReq              \* the level name of the last log-level command ("none" before it)

vars == <<EnableMetrics, EnableAutomation, pc, cancelAll, cancelSources, cancelSinks,
          deferred, ctx, handlers, task, taskRet, firstFailed, egErr,
          authCalled, authResult, ret, stopPc, stopRets, stopDone, panicked,
          launches, lateLaunch, subtreeOp, logLevel, logErr, logReq>>

flagVars == <<EnableMetrics, EnableAutomation>>
handleVars == <<cancelAll, cancelSources, cancelSinks>>
taskVars == <<task, taskRet, firstFailed, egErr>>
authVars == <<authCalled, authResult>>
stopVars == <<stopPc, stopRets, stopDone>>
otherVars == <<subtreeOp, logLevel, logErr, logReq>>

\* agent.New: the flags are fixed at construction, nothing is started.
Init ==
    /\ EnableMetrics \in BOOLEAN
    /\ EnableAutomation \in BOOLEAN
    /\ pc = "idle"
    /\ cancelAll = "nil"
    /\ cancelSources = "nil"
    /\ cancelSinks = "nil"
    /\ deferred = "none"
    /\ ctx = [c \in Contexts |-> "none"]
    /\ handlers = {}
    /\ task = [t \in Tasks |-> "none"]
    /\ taskRet = [t \in Tasks |-> "none"]
    /\ firstFailed = "none"
    /\ egErr = "nil"
    /\ authCalled = FALSE
    /\ authResult = "pending"
    /\ ret = "none"
    /\ stopPc = [s \in Stoppers |-> "idle"]
    /\ stopRets = {}
    /\ stopDone = 0
    /\ panicked = "none"
    /\ launches = [t \in Tasks |-> 0]
    /\ lateLaunch = "none"
    /\ subtreeOp = "none"
    /\ logLevel = DefaultLogLevel
    /\ logErr = "none"
    /\ logReq = "none"

\* The process is alive (no goroutine has panicked).
Alive == panicked = "none"

\* ------------------------------------------------------------------------
\* Agent.Start
\* ------------------------------------------------------------------------

\* The part of the state Start's straight-line statements leave alone.
StartFrame == UNCHANGED <<flagVars, otherVars, launches, lateLaunch, taskVars, authVars, ret, stopVars, panicked>>

\* Lines 62-63: create the root context and store its cancel function.
StartCreateAll ==
    /\ Alive /\ pc = "idle"
    /\ ctx' = [ctx EXCEPT !["allCtx"] = "live"]
    /\ cancelAll' = "set"
    /\ pc' = "l64"
    /\ UNCHANGED <<cancelSources, cancelSinks, deferred, handlers>>
    /\ StartFrame

\* Line 64: defer a.cancelAll(). The function value is read from the field
\* when the defer statement executes, and called when Start returns.
StartDefer ==
    /\ Alive /\ pc = "l64"
    /\ deferred' = IF cancelAll = "nil" THEN "nil" ELSE "cancelAll"
    /\ pc' = "l66"
    /\ UNCHANGED <<handleVars, ctx, handlers>>
    /\ StartFrame

\* Lines 66-69: derive the sources and sinks contexts from the root and
\* store their cancel functions.
StartCreateChildren ==
    /\ Alive /\ pc = "l66"
    /\ ctx' = WithCancel(WithCancel(ctx, "sourcesCtx"), "sinksCtx")
    /\ cancelSources' = "set"
    /\ cancelSinks' = "set"
    /\ pc' = "l71"
    /\ UNCHANGED <<cancelAll, deferred, handlers>>
    /\ StartFrame

\* Lines 71-74: the automation handlers, only with EnableAutomation.
StartWireAutomation ==
    /\ Alive /\ pc = "l71"
    /\ handlers' = IF EnableAutomation THEN handlers \cup AutomationHandlers ELSE handlers
    /\ pc' = "l76"
    /\ UNCHANGED <<handleVars, deferred, ctx>>
    /\ StartFrame

\* Lines 76-78: the metrics handler, only with EnableMetrics.
StartWireMetrics ==
    /\ Alive /\ pc = "l76"
    /\ handlers' = IF EnableMetrics THEN handlers \cup MetricsHandlers ELSE handlers
    /\ pc' = "l80"
    /\ UNCHANGED <<handleVars, deferred, ctx>>
    /\ StartFrame

\* Lines 80-83: the entities and audit-result handlers.
StartWireSources ==
    /\ Alive /\ pc = "l80"
    /\ handlers' = handlers \cup EntitiesHandlers \cup AuditorHandlers
    /\ pc' = "l86"
    /\ UNCHANGED <<handleVars, deferred, ctx>>
    /\ StartFrame

\* A Start that goes on to launch the Gateway without registering its
\* handlers.
StartWireGateway_Skip ==
    /\ Alive /\ pc = "l86"
    /\ pc' = "l91"
    /\ UNCHANGED <<handleVars, deferred, ctx, handlers>>
    /\ StartFrame

\* Lines 86-89: the Gateway's audit, constraints, restart and log-level
\* handlers.
StartWireGateway ==
    /\ Alive /\ pc = "l86"
    /\ handlers' = handlers \cup GatewayHandlers
    /\ pc' = "l91"
    /\ UNCHANGED <<handleVars, deferred, ctx>>
    /\ StartFrame

\* Line 91: eg, _ := errgroup.WithContext(allCtx). The group's context is
\* derived from allCtx and then dropped: no task receives it.
StartNewGroup ==
    /\ Alive /\ pc = "l91"
    /\ ctx' = WithCancel(ctx, "egCtx")
    /\ pc' = "l93"
    /\ UNCHANGED <<handleVars, deferred, handlers>>
    /\ StartFrame

\* eg.Go(f): the task's goroutine is started.
Go(t) == [task EXCEPT ![t] = "running"]

\* Task t is launched: the first launch made when the root context is
\* already cancelled is recorded, as that of the Gateway or of a source task.
LateLaunched(t) ==
    IF lateLaunch = "none" /\ ctx["allCtx"] = "cancelled"
    THEN (IF t = "Gateway" THEN "Gateway" ELSE "source")
    ELSE lateLaunch

\* eg.Go(f) has been called once more for task t.
Launched(t) == [launches EXCEPT ![t] = @ + 1]

\* A Start that goes on to the authorization without launching the Gateway.
StartLaunchGateway_Skip ==
    /\ Alive /\ pc = "l93"
    /\ pc' = "l95"
    /\ UNCHANGED <<flagVars, otherVars, launches, lateLaunch, handleVars, deferred, ctx, handlers, taskVars,
                   authVars, ret, stopVars, panicked>>

\* Line 93: launch Gateway.Start(sinksCtx) in the group.
StartLaunchGateway ==
    /\ Alive /\ pc = "l93"
    /\ task' = Go("Gateway")
    /\ launches' = Launched("Gateway")
    /\ lateLaunch' = LateLaunched("Gateway")
    /\ pc' = "l95"
    /\ UNCHANGED <<flagVars, otherVars, handleVars, deferred, ctx, handlers, taskRet, firstFailed,
                   egErr, authVars, ret, stopVars, panicked>>

\* Line 95: call Gateway.WaitAuthorization, which blocks.
StartCallWaitAuthorization ==
    /\ Alive /\ pc = "l95"
    /\ authCalled' = TRUE
    /\ pc' = "l95wait"
    /\ UNCHANGED <<flagVars, otherVars, launches, lateLaunch, handleVars, deferred, ctx, handlers, taskVars,
                   authResult, ret, stopVars, panicked>>

\* Line 95: WaitAuthorization returns nil (authorized) or an error (the
\* timeout elapsed, or the gateway rejected the agent).
WaitAuthorizationReturns ==
    /\ Alive /\ pc = "l95wait"
    /\ \E e \in {"nil"} \cup AuthErrors : authResult' = e
    /\ pc' = "l96"
    /\ UNCHANGED <<flagVars, otherVars, launches, lateLaunch, handleVars, deferred, ctx, handlers, taskVars,
                   authCalled, ret, stopVars, panicked>>

\* Start returning err without running the deferred call.
StartReturn_NoDefer(err) ==
    /\ pc' = "returned"
    /\ ret' = err
    /\ UNCHANGED <<ctx, panicked>>

\* Start returns err: the deferred call runs first. Calling the nil function
\* value the defer statement captured panics.
StartReturn(err) ==
    IF deferred = "nil"
    THEN /\ panicked' = "Start"
         /\ pc' = "panicked"
         /\ UNCHANGED <<ctx, ret>>
    ELSE /\ ctx' = Cancel(ctx, "allCtx")
         /\ pc' = "returned"
         /\ ret' = err
         /\ UNCHANGED panicked

\* A Start that ignores the error of WaitAuthorization.
StartCheckAuthorization_Ignore ==
    /\ Alive /\ pc = "l96"
    /\ pc' = "l100"
    /\ UNCHANGED <<ctx, ret, panicked>>
    /\ UNCHANGED <<flagVars, otherVars, launches, lateLaunch, handleVars, deferred, handlers, taskVars, authVars, stopVars>>

\* Lines 96-98: return the authorization error, if any.
StartCheckAuthorization ==
    /\ Alive /\ pc = "l96"
    /\ IF authResult # "nil"
       THEN StartReturn(authResult)
       ELSE /\ pc' = "l100"
            /\ UNCHANGED <<ctx, ret, panicked>>
    /\ UNCHANGED <<flagVars, otherVars, launches, lateLaunch, handleVars, deferred, handlers, taskVars, authVars, stopVars>>

\* The part of the state the launches of lines 100-107 leave alone.
LaunchFrame ==
    UNCHANGED <<flagVars, otherVars, handleVars, deferred, ctx, handlers, taskRet, firstFailed,
                egErr, authVars, ret, stopVars, panicked>>

\* Line 100: launch EntitiesSource.Start(sourcesCtx).
StartLaunchEntities ==
    /\ Alive /\ pc = "l100"
    /\ task' = Go("EntitiesSource")
    /\ launches' = Launched("EntitiesSource")
    /\ lateLaunch' = LateLaunched("EntitiesSource")
    /\ pc' = "l101"
    /\ LaunchFrame

\* A Start that launches MetricsSource.Start whatever EnableMetrics is.
StartLaunchMetrics_Always ==
    /\ Alive /\ pc = "l101"
    /\ task' = Go("MetricsSource")
    /\ launches' = Launched("MetricsSource")
    /\ lateLaunch' = LateLaunched("MetricsSource")
    /\ pc' = "l104"
    /\ LaunchFrame

\* Lines 101-103: launch MetricsSource.Start(sourcesCtx) with EnableMetrics.
StartLaunchMetrics ==
    /\ Alive /\ pc = "l101"
    /\ task' = IF EnableMetrics THEN Go("MetricsSource") ELSE task
    /\ launches' = IF EnableMetrics THEN Launched("MetricsSource") ELSE launches
    /\ lateLaunch' = IF EnableMetrics THEN LateLaunched("MetricsSource") ELSE lateLaunch
    /\ pc' = "l104"
    /\ LaunchFrame

\* A Start that launches AutomationExecutor.Start whatever EnableAutomation
\* is.
StartLaunchAutomation_Always ==
    /\ Alive /\ pc = "l104"
    /\ task' = Go("AutomationExecutor")
    /\ launches' = Launched("AutomationExecutor")
    /\ lateLaunch' = LateLaunched("AutomationExecutor")
    /\ pc' = "l107"
    /\ LaunchFrame

\* Lines 104-106: launch AutomationExecutor.Start(sourcesCtx) with
\* EnableAutomation.
StartLaunchAutomation ==
    /\ Alive /\ pc = "l104"
    /\ task' = IF EnableAutomation THEN Go("AutomationExecutor") ELSE task
    /\ launches' = IF EnableAutomation THEN Launched("AutomationExecutor") ELSE launches
    /\ lateLaunch' = IF EnableAutomation THEN LateLaunched("AutomationExecutor") ELSE lateLaunch
    /\ pc' = "l107"
    /\ LaunchFrame

\* Line 107: launch Auditor.Start(sourcesCtx).
StartLaunchAuditor ==
    /\ Alive /\ pc = "l107"
    /\ task' = Go("Auditor")
    /\ launches' = Launched("Auditor")
    /\ lateLaunch' = LateLaunched("Auditor")
    /\ pc' = "l109"
    /\ LaunchFrame

\* A Start that returns the group's error without waiting for the tasks.
StartWait_NoWait ==
    /\ Alive /\ pc = "l109"
    /\ StartReturn(egErr)
    /\ UNCHANGED <<flagVars, otherVars, launches, lateLaunch, handleVars, deferred, handlers, taskVars, authVars, stopVars>>

\* Line 109: eg.Wait() blocks until every launched task has returned, then
\* returns the group's error; Start returns it.
StartWait ==
    /\ Alive /\ pc = "l109"
    /\ \A t \in Tasks : task[t] # "running"
    /\ StartReturn(egErr)
    /\ UNCHANGED <<flagVars, otherVars, launches, lateLaunch, handleVars, deferred, handlers, taskVars, authVars, stopVars>>

\* ------------------------------------------------------------------------
\* The tasks of the errgroup
\* ------------------------------------------------------------------------

\* An errgroup that keeps the last error instead of the first.
ErrOnce_LastWins(cur, err) == IF err # "nil" THEN err ELSE cur

\* errgroup.Group.Go's errOnce.Do: only the first non-nil error is kept.
ErrOnce(cur, err) == IF cur = "nil" THEN err ELSE cur

\* The goroutine eg.Go started for task t ends: f returned err. The first
\* non-nil error is recorded and the group's own context (which no task
\* holds) is cancelled; the contexts of the agent are not touched.
TaskExit(t, err) ==
    /\ task[t] = "running"
    /\ task' = [task EXCEPT ![t] = "done"]
    /\ taskRet' = [taskRet EXCEPT ![t] = err]
    /\ firstFailed' = IF firstFailed = "none" /\ err # "nil" THEN t ELSE firstFailed
    /\ egErr' = ErrOnce(egErr, err)
    /\ ctx' = IF err # "nil" /\ egErr = "nil" THEN Cancel(ctx, "egCtx") ELSE ctx

TaskFrame ==
    UNCHANGED <<flagVars, otherVars, launches, lateLaunch, pc, handleVars, deferred, handlers, authVars, ret,
                stopVars, panicked>>

\* Component t's Start fails by itself and returns its error.
TaskFail(t) ==
    /\ Alive
    /\ TaskExit(t, TaskErr(t))
    /\ TaskFrame

\* Component t's Start ends cleanly by itself.
TaskReturnNil(t) ==
    /\ Alive
    /\ TaskExit(t, "nil")
    /\ TaskFrame

\* Component t's Start sees the context it was given cancelled and returns,
\* with nil or with the context's error.
TaskCancelled(t) ==
    /\ Alive
    /\ ctx[TaskCtx(t)] = "cancelled"
    /\ \E err \in {"nil", ErrCanceled} : TaskExit(t, err)
    /\ TaskFrame

\* ------------------------------------------------------------------------
\* Agent.Stop, Agent.stopSources, Agent.stopSinks
\* ------------------------------------------------------------------------

StopFrame ==
    UNCHANGED <<flagVars, otherVars, launches, lateLaunch, pc, cancelSources, cancelSinks, deferred, handlers,
                taskVars, authVars, ret>>

\* A Stop without the nil check of lines 131-133.
StopCheck_NoGuard(s) ==
    /\ Alive /\ stopPc[s] = "idle"
    /\ stopPc' = [stopPc EXCEPT ![s] = "l134"]
    /\ UNCHANGED <<stopRets, cancelAll, ctx, stopDone, panicked>>
    /\ StopFrame

\* Lines 131-133: caller s enters Stop; with a nil handle Stop returns nil.
StopCheck(s) ==
    /\ Alive /\ stopPc[s] = "idle"
    /\ IF cancelAll = "nil"
       THEN /\ stopRets' = stopRets \cup {"nil"}
            /\ stopDone' = IF stopDone \in 1..(MaxStops - 1) THEN stopDone + 1 ELSE stopDone
            /\ UNCHANGED stopPc
       ELSE /\ stopPc' = [stopPc EXCEPT ![s] = "l134"]
            /\ UNCHANGED <<stopRets, stopDone>>
    /\ UNCHANGED <<cancelAll, ctx, panicked>>
    /\ StopFrame

\* Line 134: a.cancelAll() reads the field again and calls it; calling a nil
\* function value panics.
StopCancel(s) ==
    /\ Alive /\ stopPc[s] = "l134"
    /\ IF cancelAll = "nil"
       THEN /\ panicked' = "Stop"
            /\ stopPc' = [stopPc EXCEPT ![s] = "panicked"]
            /\ UNCHANGED ctx
       ELSE /\ ctx' = Cancel(ctx, "allCtx")
            /\ stopPc' = [stopPc EXCEPT ![s] = "l135"]
            /\ UNCHANGED panicked
    /\ UNCHANGED <<cancelAll, stopRets, stopDone>>
    /\ StopFrame

\* A Stop that returns without clearing the handle.
StopClear_KeepHandle(s) ==
    /\ Alive /\ stopPc[s] = "l135"
    /\ stopPc' = [stopPc EXCEPT ![s] = "idle"]
    /\ stopRets' = stopRets \cup {"nil"}
    /\ stopDone' = IF stopDone < MaxStops THEN stopDone + 1 ELSE stopDone
    /\ UNCHANGED <<cancelAll, ctx, panicked>>
    /\ StopFrame

\* Lines 135-137: clear the handle and return nil.
StopClear(s) ==
    /\ Alive /\ stopPc[s] = "l135"
    /\ cancelAll' = "nil"
    /\ stopPc' = [stopPc EXCEPT ![s] = "idle"]
    /\ stopRets' = stopRets \cup {"nil"}
    /\ stopDone' = IF stopDone < MaxStops THEN stopDone + 1 ELSE stopDone
    /\ UNCHANGED <<ctx, panicked>>
    /\ StopFrame

\* Caller s enters Stop while no other caller is inside Stop.
StopCheckSeq(s) ==
    /\ \A o \in Stoppers \ {s} : stopPc[o] = "idle"
    /\ StopCheck(s)

\* A stopSources that cancels the root context.
StopSources_CancelsRoot ==
    /\ Alive
    /\ IF cancelSources = "nil"
       THEN /\ subtreeOp' = "stopSources/nil"
            /\ UNCHANGED <<ctx, cancelSources>>
       ELSE /\ ctx' = Cancel(ctx, "allCtx")
            /\ cancelSources' = "nil"
            /\ subtreeOp' = "stopSources"
    /\ UNCHANGED <<flagVars, logLevel, logErr, logReq, launches, lateLaunch, pc, cancelAll, cancelSinks,
                   deferred, handlers, taskVars, authVars, ret, stopVars, panicked>>

\* Lines 112-119: stopSources, called by one caller at a time. With a nil
\* handle it returns nil and does nothing; otherwise it calls the handle and
\* clears it.
StopSources ==
    /\ Alive
    /\ IF cancelSources = "nil"
       THEN /\ subtreeOp' = "stopSources/nil"
            /\ UNCHANGED <<ctx, cancelSources>>
       ELSE /\ ctx' = Cancel(ctx, "sourcesCtx")
            /\ cancelSources' = "nil"
            /\ subtreeOp' = "stopSources"
    /\ UNCHANGED <<flagVars, logLevel, logErr, logReq, launches, lateLaunch, pc, cancelAll, cancelSinks,
                   deferred, handlers, taskVars, authVars, ret, stopVars, panicked>>

\* A stopSinks that cancels the root context.
StopSinks_CancelsRoot ==
    /\ Alive
    /\ IF cancelSinks = "nil"
       THEN /\ subtreeOp' = "stopSinks/nil"
            /\ UNCHANGED <<ctx, cancelSinks>>
       ELSE /\ ctx' = Cancel(ctx, "allCtx")
            /\ cancelSinks' = "nil"
            /\ subtreeOp' = "stopSinks"
    /\ UNCHANGED <<flagVars, logLevel, logErr, logReq, launches, lateLaunch, pc, cancelAll, cancelSources,
                   deferred, handlers, taskVars, authVars, ret, stopVars, panicked>>

\* Lines 121-128: stopSinks, called by one caller at a time.
StopSinks ==
    /\ Alive
    /\ IF cancelSinks = "nil"
       THEN /\ subtreeOp' = "stopSinks/nil"
            /\ UNCHANGED <<ctx, cancelSinks>>
       ELSE /\ ctx' = Cancel(ctx, "sinksCtx")
            /\ cancelSinks' = "nil"
            /\ subtreeOp' = "stopSinks"
    /\ UNCHANGED <<flagVars, logLevel, logErr, logReq, launches, lateLaunch, pc, cancelAll, cancelSources,
                   deferred, handlers, taskVars, authVars, ret, stopVars, panicked>>

\* ------------------------------------------------------------------------
\* The log-level handler
\* ------------------------------------------------------------------------

\* A ConfigureGlobalLogger that falls back to the info level for a name it
\* does not know.
ConfigureGlobalLogger_Fallback(level) ==
    /\ logLevel' = IF LoggerLevel(level) = "unsupported" THEN "InfoLevel" ELSE LoggerLevel(level)
    /\ logErr' = IF LoggerLevel(level) = "unsupported" THEN "unsupported log level" ELSE "nil"

\* main.go, ConfigureGlobalLogger: an unknown name returns the error before
\* the logger is touched; a known one reconfigures the global logger.
ConfigureGlobalLogger(level) ==
    IF LoggerLevel(level) = "unsupported"
    THEN /\ logErr' = "unsupported log level"
         /\ UNCHANGED logLevel
    ELSE /\ logLevel' = LoggerLevel(level)
         /\ logErr' = "nil"

\* The Gateway, once its task runs with the log-level handler registered,
\* delivers a log-level command: the handler main gave to agent.New calls
\* ConfigureGlobalLogger with the name of the command.
ChangeLogLevel ==
    /\ Alive
    /\ task["Gateway"] = "running"
    /\ "Gateway.SetChangeLogLevelHandler" \in handlers
    /\ \E level \in LevelNames : logReq' = level /\ ConfigureGlobalLogger(level)
    /\ UNCHANGED <<flagVars, subtreeOp, launches, lateLaunch, pc, handleVars, deferred, ctx, handlers,
                   taskVars, authVars, ret, stopVars, panicked>>

\* ------------------------------------------------------------------------
\* Specifications
\* ------------------------------------------------------------------------

\* The steps of Agent.Start.
StartNext ==
    \/ StartCreateAll
    \/ StartDefer
    \/ StartCreateChildren
    \/ StartWireAutomation
    \/ StartWireMetrics
    \/ StartWireSources
    \/ StartWireGateway
    \/ StartNewGroup
    \/ StartLaunchGateway
    \/ StartCallWaitAuthorization
    \/ WaitAuthorizationReturns
    \/ StartCheckAuthorization
    \/ StartLaunchEntities
    \/ StartLaunchMetrics
    \/ StartLaunchAutomation
    \/ StartLaunchAuditor
    \/ StartWait

Next ==
    \/ StartNext
    \/ \E t \in Tasks : TaskFail(t)
    \/ \E t \in Tasks : TaskReturnNil(t)
    \/ \E t \in Tasks : TaskCancelled(t)
    \/ \E s \in Stoppers : StopCheck(s)
    \/ \E s \in Stoppers : StopCancel(s)
    \/ \E s \in Stoppers : StopClear(s)

\* Start, the tasks, and any number of concurrent callers of Stop.
Spec == Init /\ [][Next]_vars

NextSeq ==
    \/ StartNext
    \/ \E t \in Tasks : TaskFail(t)
    \/ \E t \in Tasks : TaskReturnNil(t)
    \/ \E t \in Tasks : TaskCancelled(t)
    \/ \E s \in Stoppers : StopCheckSeq(s)
    \/ \E s \in Stoppers : StopCancel(s)
    \/ \E s \in Stoppers : StopClear(s)

\* As Spec, with the calls of Stop issued one after the other.
SeqSpec == Init /\ [][NextSeq]_vars

\* Component t's Start fails while no task has failed before it.
TaskFailFirst(t) ==
    /\ \A u \in Tasks : taskRet[u] \in {"none", "nil"}
    /\ TaskFail(t)

NextLive ==
    \/ StartNext
    \/ \E t \in Tasks : TaskFailFirst(t)
    \/ \E t \in Tasks : TaskCancelled(t)
    \/ \E s \in Stoppers : StopCheck(s)
    \/ \E s \in Stoppers : StopCancel(s)
    \/ \E s \in Stoppers : StopClear(s)

\* One task at most failing by itself and every other task returning when,
\* and only when, its context is cancelled. Start's own statements always
\* proceed, WaitAuthorization returns within its timeout, and a task whose
\* context is cancelled returns. Nothing obliges anyone to call Stop.
LiveSpec ==
    /\ Init /\ [][NextLive]_vars
    /\ WF_vars(StartNext)
    /\ \A t \in Tasks : WF_vars(TaskCancelled(t))

NextSubtree ==
    \/ StartNext
    \/ \E t \in Tasks : TaskReturnNil(t)
    \/ \E t \in Tasks : TaskCancelled(t)
    \/ \E s \in Stoppers : StopCheckSeq(s)
    \/ \E s \in Stoppers : StopCancel(s)
    \/ \E s \in Stoppers : StopClear(s)
    \/ StopSources
    \/ StopSinks

\* Start, the calls of Stop issued one after the other, and calls of
\* stopSources and stopSinks; the tasks end cleanly or on cancellation (a
\* task's own failure touches neither the agent's contexts nor its handles).
SubtreeSpec == Init /\ [][NextSubtree]_vars

\* As SeqSpec, where Start's own statements always proceed, WaitAuthorization
\* returns within its timeout, a task whose context is cancelled returns,
\* and a caller inside Stop goes on to the end of Stop.
SeqLiveSpec ==
    /\ Init /\ [][NextSeq]_vars
    /\ WF_vars(StartNext)
    /\ \A t \in Tasks : WF_vars(TaskCancelled(t))
    /\ \A s \in Stoppers : WF_vars(StopCancel(s) \/ StopClear(s))

NextLog ==
    \/ StartNext
    \/ \E t \in Tasks : TaskFail(t)
    \/ \E t \in Tasks : TaskReturnNil(t)
    \/ \E t \in Tasks : TaskCancelled(t)
    \/ ChangeLogLevel

\* Start and its tasks, with log-level commands delivered by the Gateway.
LogSpec == Init /\ [][NextLog]_vars

\* ------------------------------------------------------------------------
\* Properties
\* ------------------------------------------------------------------------

\* Start has returned the error of WaitAuthorization's failure.
AuthFailedReturn == pc = "returned" /\ authResult \in AuthErrors

\* No caller has entered Stop.
NoStop == stopRets = {} /\ \A s \in Stoppers : stopPc[s] = "idle"

\* The handlers the enablement flags require.
RequiredHandlers ==
    EntitiesHandlers \cup AuditorHandlers \cup GatewayHandlers
    \cup (IF EnableMetrics THEN MetricsHandlers ELSE {})
    \cup (IF EnableAutomation THEN AutomationHandlers ELSE {})

\* C1: when WaitAuthorization returned an error (timeout or rejection), no
\* source task (EntitiesSource, MetricsSource, AutomationExecutor, Auditor)
\* is ever launched, whatever the enablement flags.
C1_NoSourceAfterAuthorizationError ==
    authResult \in AuthErrors => \A t \in SourceTasks : task[t] = "none"

C1_Witness ==
    /\ AuthFailedReturn
    /\ EnableMetrics /\ EnableAutomation
    /\ \A t \in SourceTasks : task[t] = "none"

\* C2 (as claimed): while Start waits on the group and a task has returned
\* an error, the root context is cancelled, so every task still running has
\* its context cancelled.
C2_FailureCancelsRoot ==
    (pc = "l109" /\ firstFailed # "none") =>
        /\ ctx["allCtx"] = "cancelled"
        /\ \A t \in Tasks : task[t] = "running" => ctx[TaskCtx(t)] = "cancelled"

\* C3 (as claimed): after a successful authorization, once a task has
\* returned an error, Start eventually returns without any call of Stop
\* (the other tasks returning when and only when their context is
\* cancelled).
C3_StartReturnsAfterFailure ==
    (authResult = "nil" /\ firstFailed # "none" /\ NoStop) ~> (pc = "returned" \/ ~NoStop)

\* C4: the group's error is that of the task that failed first and later
\* errors never replace it; when Start returns after a successful
\* authorization and some task failed, Start returns that first error.
C4_FirstErrorReturned ==
    /\ firstFailed # "none" => egErr = taskRet[firstFailed]
    /\ (pc = "returned" /\ authResult = "nil" /\ firstFailed # "none") =>
           ret = taskRet[firstFailed]

C4_Witness ==
    /\ pc = "returned" /\ authResult = "nil" /\ firstFailed # "none"
    /\ ret = taskRet[firstFailed]
    /\ \E t \in Tasks : taskRet[t] \notin {"none", "nil", ret}

\* C5: Gateway.Start is launched before WaitAuthorization is called, and a
\* source task is started only after WaitAuthorization has returned nil.
C5_GatewayFirstThenAuthorization ==
    /\ authCalled => task["Gateway"] # "none"
    /\ \A t \in SourceTasks : task[t] # "none" => authResult = "nil"

C5_Witness ==
    /\ authResult = "nil"
    /\ task["Gateway"] = "running"
    /\ \A t \in SourceTasks : task[t] = "running"

\* C6: whenever a task has been launched, every handler the enablement
\* flags require is registered.
C6_WiredBeforeLaunch ==
    (\E t \in Tasks : task[t] # "none") => handlers = RequiredHandlers

C6_Witness ==
    /\ pc = "l95"
    /\ task["Gateway"] = "running"
    /\ EnableMetrics /\ EnableAutomation
    /\ handlers = RequiredHandlers

\* C7 (as claimed): when Start returns the authorization error, the Gateway
\* task is no longer running.
C7_GatewayExitedAtAuthFailureReturn ==
    AuthFailedReturn => task["Gateway"] # "running"

\* C7 (amended): when Start returns the authorization error, the context the
\* Gateway task runs under is cancelled; Start does not wait for the task.
C7_GatewayCancelledAtAuthFailureReturn ==
    AuthFailedReturn => ctx["sinksCtx"] = "cancelled"

C7_Witness ==
    /\ AuthFailedReturn
    /\ NoStop
    /\ task["Gateway"] = "running"
    /\ ctx["sinksCtx"] = "cancelled"

\* C8: on authorization failure Start returns exactly the error of
\* WaitAuthorization, and the root context is cancelled once it has returned.
C8_AuthErrorReturnedRootCancelled ==
    AuthFailedReturn => (ret = authResult /\ ctx["allCtx"] = "cancelled")

C8_Witness ==
    /\ AuthFailedReturn
    /\ NoStop
    /\ ret = "rejected"
    /\ ctx["allCtx"] = "cancelled"

\* C9 (as claimed): under every interleaving of concurrent calls of Stop, no
\* call invokes a nil cancel handle.
C9_ConcurrentStopNeverPanics ==
    panicked # "Stop"

\* C10: with the calls of Stop issued one after the other (before, during or
\* after Start), no call panics, every call that is inside Stop can take its
\* next step (it waits for nothing), every call returns nil, and once a call
\* that invoked the cancel handle has returned, a step of Stop changes
\* neither the handles nor the contexts.
C10_SequentialStopIdempotent ==
    /\ [](panicked # "Stop")
    /\ [](stopRets \subseteq {"nil"})
    /\ [](Alive => \A s \in Stoppers :
              stopPc[s] # "idle" => ENABLED (StopCancel(s) \/ StopClear(s)))
    /\ [][(stopDone >= 1 /\ \E s \in Stoppers : StopCheck(s) \/ StopCancel(s) \/ StopClear(s))
            => UNCHANGED <<handleVars, ctx, pc, taskVars, ret, panicked>>]_vars

C10_Witness ==
    /\ stopDone = MaxStops
    /\ pc = "returned"
    /\ cancelAll = "nil"
    /\ ctx["allCtx"] = "cancelled"
    /\ stopRets = {"nil"}

\* Task t is running and the context it was given is cancelled: it observes
\* the cancellation.
Observes(t) == task[t] = "running" /\ ctx[TaskCtx(t)] = "cancelled"

\* No caller is inside Stop.
NoStopInProgress == \A s \in Stoppers : stopPc[s] = "idle"

\* C11 (as claimed): a stopSinks that finds its handle leaves the sources
\* and root contexts as they were, and the Gateway task does not observe
\* cancellation after it unless it did before.
C11_StopSinksSparesGateway ==
    [][(StopSinks /\ cancelSinks # "nil") =>
            /\ ctx'["sourcesCtx"] = ctx["sourcesCtx"]
            /\ ctx'["allCtx"] = ctx["allCtx"]
            /\ (Observes("Gateway")' => Observes("Gateway"))]_vars

\* C11 (amended): a stopSinks that finds its handle cancels the sinks
\* context and leaves the sources and root contexts as they were; the
\* Gateway task, which runs under the sinks context, observes the
\* cancellation if it is running.
C11_StopSinksCancelsOnlySinks ==
    [][(StopSinks /\ cancelSinks # "nil") =>
            /\ ctx'["sinksCtx"] = "cancelled"
            /\ ctx'["sourcesCtx"] = ctx["sourcesCtx"]
            /\ ctx'["allCtx"] = ctx["allCtx"]
            /\ (task["Gateway"] = "running" => Observes("Gateway")')]_vars

C11_Witness ==
    /\ subtreeOp = "stopSinks"
    /\ ctx["sinksCtx"] = "cancelled"
    /\ ctx["sourcesCtx"] = "live"
    /\ ctx["allCtx"] = "live"
    /\ Observes("Gateway")
    /\ task["EntitiesSource"] = "running" /\ ~Observes("EntitiesSource")

\* C12: a stopSources that finds its handle cancels the sources context, so
\* every running source task observes cancellation, and leaves the sinks and
\* root contexts and what the Gateway task observes as they were; a
\* stopSources that finds the handle cleared changes neither the contexts,
\* nor the handles, nor the tasks.
C12_StopSourcesCancelsOnlySources ==
    /\ [][(StopSources /\ cancelSources # "nil") =>
            /\ ctx'["sourcesCtx"] = "cancelled"
            /\ ctx'["sinksCtx"] = ctx["sinksCtx"]
            /\ ctx'["allCtx"] = ctx["allCtx"]
            /\ \A t \in SourceTasks : task[t] = "running" => Observes(t)'
            /\ Observes("Gateway")' = Observes("Gateway")]_vars
    /\ [][(StopSources /\ cancelSources = "nil") =>
            UNCHANGED <<ctx, handleVars, taskVars, pc, ret, panicked>>]_vars

C12_Witness ==
    /\ subtreeOp = "stopSources/nil"
    /\ cancelSources = "nil"
    /\ ctx["sourcesCtx"] = "cancelled"
    /\ ctx["sinksCtx"] = "live"
    /\ ctx["allCtx"] = "live"
    /\ task["Gateway"] = "running" /\ ~Observes("Gateway")
    /\ Observes("EntitiesSource") /\ Observes("Auditor")

\* C13: whenever the root context is cancelled, no context derived from it
\* is live; a call of stopSources leaves the sinks and root contexts as they
\* were and a call of stopSinks the sources and root contexts; a cancelled
\* context is never uncancelled.
C13_CancellationHierarchy ==
    /\ [](ctx["allCtx"] = "cancelled" =>
            ctx["sourcesCtx"] # "live" /\ ctx["sinksCtx"] # "live")
    /\ [][StopSources =>
            ctx'["sinksCtx"] = ctx["sinksCtx"] /\ ctx'["allCtx"] = ctx["allCtx"]]_vars
    /\ [][StopSinks =>
            ctx'["sourcesCtx"] = ctx["sourcesCtx"] /\ ctx'["allCtx"] = ctx["allCtx"]]_vars
    /\ [][\A c \in Contexts : ctx[c] = "cancelled" => ctx'[c] = "cancelled"]_vars

C13_Witness ==
    /\ pc = "l109"
    /\ stopDone >= 1
    /\ subtreeOp = "none"
    /\ ctx["allCtx"] = "cancelled"
    /\ ctx["sourcesCtx"] = "cancelled"
    /\ ctx["sinksCtx"] = "cancelled"

\* C14 (as claimed): when no call of Stop is in progress, a cancelled root,
\* sources or sinks context has a nil handle.
C14_CancelledImpliesNilHandle ==
    NoStopInProgress =>
        /\ ctx["allCtx"] = "cancelled" => cancelAll = "nil"
        /\ ctx["sourcesCtx"] = "cancelled" => cancelSources = "nil"
        /\ ctx["sinksCtx"] = "cancelled" => cancelSinks = "nil"

\* C14 (amended): each of Stop, stopSources and stopSinks clears its own
\* handle only. When no call of Stop is in progress, a cancelled sources or
\* sinks context whose handle is not nil was cancelled through the root, and
\* a cancelled root context whose handle is not nil was cancelled by the
\* deferred call of a Start that has returned.
C14_OwnHandleCleared ==
    NoStopInProgress =>
        /\ (ctx["sourcesCtx"] = "cancelled" /\ cancelSources # "nil") => ctx["allCtx"] = "cancelled"
        /\ (ctx["sinksCtx"] = "cancelled" /\ cancelSinks # "nil") => ctx["allCtx"] = "cancelled"
        /\ (ctx["allCtx"] = "cancelled" /\ cancelAll # "nil") => pc = "returned"

C14_Witness ==
    /\ NoStopInProgress
    /\ stopDone >= 1
    /\ pc = "l109"
    /\ ctx["allCtx"] = "cancelled" /\ cancelAll = "nil"
    /\ ctx["sourcesCtx"] = "cancelled" /\ cancelSources = "set"
    /\ ctx["sinksCtx"] = "cancelled" /\ cancelSinks = "nil"

\* C15: with the calls of Stop issued one after the other, a call of Stop
\* that has passed its nil check while Start waits on the group leads to
\* Start returning, the tasks returning once their context is cancelled; a
\* caller inside Stop can always take its next step, whatever the tasks do.
C15_StopUnblocksStart ==
    /\ \A s \in Stoppers : (pc = "l109" /\ stopPc[s] = "l134") ~> (pc = "returned")
    /\ [](Alive => \A s \in Stoppers :
              stopPc[s] \in {"l134", "l135"} => ENABLED (StopCancel(s) \/ StopClear(s)))

C15_Witness ==
    /\ pc = "l109"
    /\ stopDone = 1
    /\ NoStopInProgress
    /\ deferred = "cancelAll"
    /\ task["Gateway"] = "running"
    /\ task["EntitiesSource"] = "running"
    /\ task["Auditor"] = "running"

\* C16: with EnableMetrics false, whatever EnableAutomation and the outcome
\* of the authorization, the metrics handler is never registered and
\* MetricsSource.Start is never launched.
C16_NoMetricsWhenDisabled ==
    ~EnableMetrics =>
        /\ "MetricsSource.SetMetricsHandler" \notin handlers
        /\ launches["MetricsSource"] = 0
        /\ task["MetricsSource"] = "none"

C16_Witness ==
    /\ ~EnableMetrics /\ EnableAutomation
    /\ pc = "l109"
    /\ launches["AutomationExecutor"] = 1
    /\ launches["MetricsSource"] = 0

\* The source tasks the enablement flags select.
ExpectedSources ==
    {"EntitiesSource", "Auditor"}
    \cup (IF EnableMetrics THEN {"MetricsSource"} ELSE {})
    \cup (IF EnableAutomation THEN {"AutomationExecutor"} ELSE {})

\* Start has executed every launch of the path of a successful authorization.
LaunchesDone == pc = "l109" \/ (pc \in {"returned", "panicked"} /\ authResult = "nil")

\* C17: once Start has gone through the launches that follow a successful
\* authorization, the source tasks launched are EntitiesSource and Auditor,
\* MetricsSource iff EnableMetrics and AutomationExecutor iff
\* EnableAutomation, each launched once; a running source task can return on
\* cancellation exactly when the sources context is cancelled; the
\* automation handlers are registered iff EnableAutomation.
C17_ExactSourceTasks ==
    /\ \A t \in Tasks : launches[t] <= 1
    /\ LaunchesDone =>
          /\ \A t \in SourceTasks : launches[t] = (IF t \in ExpectedSources THEN 1 ELSE 0)
          /\ handlers \cap AutomationHandlers =
                (IF EnableAutomation THEN AutomationHandlers ELSE {})
    /\ Alive => \A t \in SourceTasks :
          task[t] = "running" =>
              ((ENABLED TaskCancelled(t)) <=> ctx["sourcesCtx"] = "cancelled")

C17_Witness ==
    /\ pc = "l109"
    /\ EnableMetrics /\ ~EnableAutomation
    /\ \A t \in ExpectedSources : launches[t] = 1 /\ task[t] = "running"
    /\ launches["AutomationExecutor"] = 0
    /\ handlers \cap AutomationHandlers = {}
    /\ ctx["sourcesCtx"] = "live"

\* The state of the supervisor's lifecycle: Stopped once Start has ended,
\* Stopping while the root context is cancelled and Start has not ended,
\* otherwise the stage Start has reached (Created until the handlers are
\* wired, Wired until the Gateway is launched, AuthorizingGateway until the
\* authorization is known to have succeeded, then Running).
Lifecycle ==
    IF pc \in {"returned", "panicked"} THEN "Stopped"
    ELSE IF ctx["allCtx"] = "cancelled" THEN "Stopping"
    ELSE IF pc \in {"idle", "l64", "l66", "l71", "l76", "l80", "l86"} THEN "Created"
    ELSE IF pc \in {"l91", "l93"} THEN "Wired"
    ELSE IF pc \in {"l95", "l95wait", "l96"} THEN "AuthorizingGateway"
    ELSE "Running"

\* The transitions the lifecycle is said to have.
ClaimedTransitions ==
    {<<"Created", "Wired">>, <<"Wired", "AuthorizingGateway">>,
     <<"AuthorizingGateway", "Running">>, <<"Running", "Stopping">>,
     <<"Stopping", "Stopped">>, <<"AuthorizingGateway", "Stopped">>}

\* The transitions a call of Stop before Running adds.
EarlyStopTransitions ==
    {<<"Created", "Stopping">>, <<"Wired", "Stopping">>, <<"AuthorizingGateway", "Stopping">>}

\* C18 (as claimed): every change of the lifecycle state is one of Created ->
\* Wired -> AuthorizingGateway -> Running -> Stopping -> Stopped or
\* AuthorizingGateway -> Stopped.
C18_LifecycleNoSkip ==
    [][Lifecycle' # Lifecycle => <<Lifecycle, Lifecycle'>> \in ClaimedTransitions]_vars

\* C18 (amended): every change of the lifecycle state is one of the claimed
\* ones, or goes from Created, Wired or AuthorizingGateway directly to
\* Stopping, on a step of Stop, or from Running directly to Stopped, when no
\* launched task is running any more; AuthorizingGateway goes directly to
\* Stopped only with Start returning the authorization error.
C18_LifecycleForward ==
    [][Lifecycle' # Lifecycle =>
          /\ <<Lifecycle, Lifecycle'>> \in
                ClaimedTransitions \cup EarlyStopTransitions \cup {<<"Running", "Stopped">>}
          /\ <<Lifecycle, Lifecycle'>> \in EarlyStopTransitions => stopPc' # stopPc
          /\ <<Lifecycle, Lifecycle'>> = <<"Running", "Stopped">> =>
                \A t \in Tasks : task[t] # "running"
          /\ <<Lifecycle, Lifecycle'>> = <<"AuthorizingGateway", "Stopped">> =>
                (ret' = authResult /\ authResult \in AuthErrors)]_vars

C18_Witness ==
    /\ Lifecycle = "Stopped"
    /\ NoStop
    /\ authResult = "nil"
    /\ egErr = "nil"
    /\ \A t \in ExpectedSources : task[t] = "done"

\* C19 (as claimed): once a call of Stop has returned, no task is launched
\* any more.
C19_NoLaunchAfterStop ==
    [][stopRets # {} => launches' = launches]_vars

\* C19 (amended): once a call of Stop that invoked the cancel handle has
\* returned, the root context is cancelled for good, and every task that
\* runs, launched before or after that call, has its context cancelled.
C19_StopCancelsForGood ==
    stopDone >= 1 =>
        /\ ctx["allCtx"] = "cancelled"
        /\ \A t \in Tasks : task[t] = "running" => ctx[TaskCtx(t)] = "cancelled"

C19_Witness ==
    /\ stopDone >= 1
    /\ deferred = "nil"
    /\ authResult = "nil"
    /\ Observes("Gateway")
    /\ Observes("EntitiesSource")

\* The level names ConfigureGlobalLogger is said to recognise.
RecognizedLevels == {"info", "debug", "warn", "error"}

\* C20: a log-level change with a recognised name returns nil and the
\* configured level becomes that level; with any other name it returns an
\* error and the configured level stays what it was; in either case no
\* context and no cancel handle changes.
C20_LogLevelChange ==
    [][ChangeLogLevel =>
          /\ logReq' \in RecognizedLevels =>
                /\ logErr' = "nil"
                /\ logReq' = "info" => logLevel' = "InfoLevel"
                /\ logReq' = "debug" => logLevel' = "DebugLevel"
                /\ logReq' = "warn" => logLevel' = "WarnLevel"
                /\ logReq' = "error" => logLevel' = "ErrorLevel"
          /\ logReq' \notin RecognizedLevels =>
                /\ logErr' \notin {"nil", "none"}
                /\ logLevel' = logLevel
          /\ UNCHANGED <<ctx, handleVars>>]_vars

C20_Witness ==
    /\ logReq = "verbose"
    /\ logErr = "unsupported log level"
    /\ logLevel = "DebugLevel"
    /\ ctx["allCtx"] = "live"

\* A source task has been launched when the root context was already
\* cancelled.
LateSource ==
    \/ lateLaunch = "source"
    \/ lateLaunch = "Gateway" /\ \E t \in SourceTasks : launches[t] >= 1

\* C21 (as claimed): no source task is launched when the root context is
\* already cancelled.
C21_NoSourceLaunchAfterCancel ==
    ~LateSource

\* C21 (amended): Start launches its tasks whether or not the root context
\* is cancelled; once a task has been launched with the root context already
\* cancelled, the context that task was given is cancelled, so that a source
\* task launched late observes cancellation from its start.
C21_LateLaunchUnderCancelledContext ==
    /\ lateLaunch = "Gateway" => ctx[TaskCtx("Gateway")] = "cancelled"
    /\ LateSource => \A t \in SourceTasks : ctx[TaskCtx(t)] = "cancelled"

C21_Witness ==
    /\ authResult = "nil"
    /\ lateLaunch = "source"
    /\ stopDone >= 1
    /\ \A t \in ExpectedSources : launches[t] = 1
    /\ Observes("EntitiesSource")
    /\ Observes("Auditor")

\* C22 (as claimed): Start never calls a nil cancel handle: the function its
\* defer statement captured is the handle Start created.
C22_DeferredHandleNeverNil ==
    deferred # "nil" /\ panicked # "Start"

\* C23: when Start has returned on the path of a successful authorization,
\* no task it launched is still running.
C23_ReturnAfterAllTasks ==
    (pc = "returned" /\ authResult = "nil") =>
        \A t \in Tasks : launches[t] >= 1 => task[t] = "done"

C23_Witness ==
    /\ pc = "returned" /\ authResult = "nil"
    /\ EnableMetrics /\ EnableAutomation
    /\ \A t \in Tasks : launches[t] = 1 /\ task[t] = "done"
    /\ \E t \in Tasks : taskRet[t] = ErrCanceled
    /\ ret # "nil"

====
